---- MODULE Spec2Model ----
(***************************************************************************)
(* A state-machine model of SpectrogramVisualizer (src/spectrogram.js):    *)
(* the Mel filter bank, the frame reducer, the scrolling history buffer,   *)
(* the RGBA image behind the texture, and the handlers that drive them     *)
(* (animation tick, start/stop recording, file load, fftSize and melBands  *)
(* controls).                                                              *)
(*                                                                         *)
(* Numbers.  JavaScript floats are modelled in fixed point: a filter       *)
(* weight w is the integer floor(w * WeightScale), and a Mel band value v  *)
(* (sum / 255.0 in the source) is the integer sum of magnitude * weight,   *)
(* so that the value 1.0 is MelUnit = 255 * WeightScale.  NaN is the       *)
(* distinguished value NaN.  Arrays are 0-indexed in the source and        *)
(* 1-indexed here: element i of the source is element i + 1 of the model.  *)
(***************************************************************************)
EXTENDS Integers, Sequences, FiniteSets, TLC

(***************************************************************************)
(* Bounds of the model and constants of the program.                       *)
(***************************************************************************)
\* config.spectrogramWidth: 600 in the source, scaled down here.  No handler
\* of the source ever assigns it.
spectrogramWidth == 2
\* At most this many getUserMedia requests, and this many file loads, in flight.
MaxPending == 1
\* At most this many auto-stop timers scheduled and not yet fired.
MaxTimers == 1
\* The values the fftSize <select> offers (powers of two), scaled down.
FftSizes == {4, 8}
\* The values the melBands slider offers, scaled down.
MelBandChoices == {1, 2}
\* The configuration the constructor sets (fftSize 1024, melBands 256), scaled down.
InitFftSize == 8
InitMelBands == 2
sampleRate == 44100
\* Fixed-point scale of a filter weight: the weight 1.0 is WeightScale.
WeightScale == 1000
\* The Mel band value 1.0 (sum / 255.0 = 1).
MelUnit == 255 * WeightScale
\* NaN, which arithmetic on a missing (undefined) weight produces.
NaN == 0 - 1000000000

VARIABLES
    config,              \* [fftSize, melBands]
    analyserFftSize,     \* this.analyser.fftSize
    dataArray,           \* this.dataArray, a Uint8Array of frequencyBinCount bytes
    melFilterBank,       \* this.melFilterBank
    isRecording,         \* this.isRecording
    spectrogramData,     \* this.spectrogramData, the history buffer
    spectrogramTexture,  \* [width, height, data]: the DataTexture and its Uint8Array
    startBtnDisabled,    \* startBtn.disabled
    stopBtnDisabled,     \* stopBtn.disabled
    audioState,          \* this.audioContext.state
    pendingStarts,       \* startRecording calls awaiting getUserMedia
    pendingLoads,        \* loadAudioFile calls awaiting arrayBuffer or decodeAudioData
    timers,              \* auto-stop timers scheduled by loadAudioFile
    pushed,              \* history: the last frames pushed since the buffer was last emptied
    lastOp               \* history: the last handler that changed the pipeline

vars == <<config, analyserFftSize, dataArray, melFilterBank, isRecording,
          spectrogramData, spectrogramTexture, startBtnDisabled, stopBtnDisabled,
          audioState, pendingStarts, pendingLoads, timers, pushed, lastOp>>

Min(a, b) == IF a < b THEN a ELSE b

(***************************************************************************)
(* createMelFilterBank                                                     *)
(***************************************************************************)
\* hzPoints for nMels bands: melToHz of nMels + 2 points equally spaced on the
\* Mel scale between hzToMel(500) and hzToMel(sampleRate / 2).  log10 and pow
\* are tabulated, rounded to the nearest Hz.
hzPoints(nMels) ==
    CASE nMels = 1 -> <<500, 4525, 22050>>
      [] nMels = 2 -> <<500, 2500, 7832, 22050>>
      [] nMels = 3 -> <<500, 1804, 4525, 10203, 22050>>
      [] nMels = 4 -> <<500, 1461, 3193, 6312, 11931, 22050>>
      [] nMels = 5 -> <<500, 1260, 2500, 4525, 7832, 13232, 22050>>
      [] nMels = 6 -> <<500, 1127, 2081, 3535, 5747, 9115, 14243, 22050>>


\* filter[k] with the falling side computed from center instead of right.
filterWeightRising(k, nfft, left, center, right) ==
    LET freq == k * sampleRate
        l == left * 2 * nfft
        c == center * 2 * nfft
        r == right * 2 * nfft
    IN  IF freq >= l /\ freq <= c
        THEN ((freq - l) * WeightScale) \div (c - l)
        ELSE IF freq > c /\ freq <= r
             THEN ((freq - c) * WeightScale) \div (r - c)
             ELSE 0
\* filter[k] of the triangle (left, center, right) for nfft bins.  The bin
\* frequency k * sampleRate / (2 * nfft) and the breakpoints are compared
\* exactly, both multiplied by 2 * nfft.
filterWeight(k, nfft, left, center, right) ==
    LET freq == k * sampleRate
        l == left * 2 * nfft
        c == center * 2 * nfft
        r == right * 2 * nfft
    IN  IF freq >= l /\ freq <= c
        THEN ((freq - l) * WeightScale) \div (c - l)
        ELSE IF freq > c /\ freq <= r
             THEN ((r - freq) * WeightScale) \div (r - c)
             ELSE 0

createMelFilterBank(fftSize, nMels) ==
    LET nfft == fftSize \div 2
        hz == hzPoints(nMels)
    IN  [m \in 1..nMels |->
            [k1 \in 1..nfft |-> filterWeight(k1 - 1, nfft, hz[m], hz[m + 1], hz[m + 2])]]

(***************************************************************************)
(* applyMelFiltering                                                       *)
(***************************************************************************)
\* sum + x in floating point: NaN is absorbing.
AddNum(a, b) == IF a = NaN \/ b = NaN THEN NaN ELSE a + b

\* fftData[k] * this.melFilterBank[m][k]; a missing weight is undefined, and
\* a number times undefined is NaN.
WeightedBin(fftData, filter, k1) ==
    IF k1 \in DOMAIN filter /\ filter[k1] # NaN THEN fftData[k1] * filter[k1] ELSE NaN

\* The inner loop: sum over k < fftData.length, from bin k1 on.
RECURSIVE bandSum(_, _, _)
bandSum(fftData, filter, k1) ==
    IF k1 > Len(fftData) THEN 0
    ELSE AddNum(WeightedBin(fftData, filter, k1), bandSum(fftData, filter, k1 + 1))

\* this.melFilterBank[m] is undefined for some m < melBands: indexing it throws;
\* new Array(melBands) throws for a negative melBands.
reduceThrows(bank, nMels) == nMels > Len(bank) \/ nMels < 0


\* applyMelFiltering whose band loop stops one band early.
applyMelFilteringShort(fftData, bank, nMels) ==
    [m \in 1..(nMels - 1) |-> bandSum(fftData, bank[m], 1)]
\* melData[m] = sum / 255.0, kept as the integer sum (1.0 is MelUnit).
applyMelFiltering(fftData, bank, nMels) ==
    [m \in 1..nMels |-> bandSum(fftData, bank[m], 1)]

(***************************************************************************)
(* The image: createSpectrogramPlane, recreateTexture, updateTexture       *)
(***************************************************************************)
\* A Uint8Array element read: out of range reads undefined, stored as 0.
ReadByte(data, i) == IF i + 1 \in DOMAIN data THEN data[i + 1] ELSE 0
\* A Uint8Array element write: the value modulo 256; out of range is ignored.
WriteByte(data, i, v) == IF i + 1 \in DOMAIN data THEN [data EXCEPT ![i + 1] = v % 256] ELSE data

\* createSpectrogramPlane: every cell (0, 0, 0, 255).
createSpectrogramPlane(w, h) ==
    [width |-> w, height |-> h,
     data |-> [i1 \in 1..(w * h * 4) |-> IF i1 % 4 = 0 THEN 255 ELSE 0]]

\* recreateTexture: a fresh Uint8Array, all zero.
recreateTexture(w, h) ==
    [width |-> w, height |-> h, data |-> [i1 \in 1..(w * h * 4) |-> 0]]

\* One iteration of the shift loops: cell (x, y) takes the four bytes of (x + 1, y).
copyCell(data, x, y, w) ==
    LET srcIndex == (y * w + x + 1) * 4
        dstIndex == (y * w + x) * 4
        d0 == WriteByte(data, dstIndex, ReadByte(data, srcIndex))
        d1 == WriteByte(d0, dstIndex + 1, ReadByte(d0, srcIndex + 1))
        d2 == WriteByte(d1, dstIndex + 2, ReadByte(d1, srcIndex + 2))
    IN  WriteByte(d2, dstIndex + 3, ReadByte(d2, srcIndex + 3))


\* shiftLeft that stops one column early: the last but one column is never refreshed.
RECURSIVE shiftLeftShort(_, _, _, _)
shiftLeftShort(data, p, w, h) ==
    IF w <= 1 \/ p >= h * (w - 1) THEN data
    ELSE shiftLeftShort(IF p % (w - 1) = w - 2 THEN data
                        ELSE copyCell(data, p % (w - 1), p \div (w - 1), w),
                        p + 1, w, h)
\* The nested loops, in place and in the source's order: y ascending, and for
\* each y, x ascending from 0 to w - 2.  p numbers the iterations.
RECURSIVE shiftLeft(_, _, _, _)
shiftLeft(data, p, w, h) ==
    IF w <= 1 \/ p >= h * (w - 1) THEN data
    ELSE shiftLeft(copyCell(data, p % (w - 1), p \div (w - 1), w), p + 1, w, h)

\* latestData[y] || 0: a missing value, NaN and 0 all give 0.
orZero(latestData, y) ==
    IF y + 1 \in DOMAIN latestData /\ latestData[y + 1] # NaN THEN latestData[y + 1] ELSE 0

\* Math.min(1.0, latestData[y] || 0)
intensity(latestData, y) == Min(MelUnit, orZero(latestData, y))

\* Math.floor(intensity * 255)
pixelValue(latestData, y) == intensity(latestData, y) \div WeightScale

\* The loop that writes the newest column, from row y on.
RECURSIVE writeColumn(_, _, _, _, _)
writeColumn(data, latestData, y, w, h) ==
    IF y >= h THEN data
    ELSE LET pixelIndex == (y * w + (w - 1)) * 4
             value == pixelValue(latestData, y)
             d0 == WriteByte(data, pixelIndex, value)
             d1 == WriteByte(d0, pixelIndex + 1, value)
             d2 == WriteByte(d1, pixelIndex + 2, value)
             d3 == WriteByte(d2, pixelIndex + 3, 255)
         IN  writeColumn(d3, latestData, y + 1, w, h)


\* updateTexture without the shift: the newest column overwrites the last one.
updateTextureNoShift(tex, data, w, h) ==
    IF Len(data) = 0 THEN tex
    ELSE [tex EXCEPT !.data = writeColumn(tex.data, data[Len(data)], 0, w, h)]
\* updateTexture, with w = config.spectrogramWidth and h = config.melBands.
updateTexture(tex, data, w, h) ==
    IF Len(data) = 0 THEN tex
    ELSE [tex EXCEPT !.data = writeColumn(shiftLeft(tex.data, 0, w, h), data[Len(data)], 0, w, h)]

(***************************************************************************)
(* The analyser                                                            *)
(***************************************************************************)
\* What getByteFrequencyData may write into an array of n bytes: silence,
\* every bin at full scale, or a single full-scale bin (bin 1).
Magnitudes(n) ==
    { [k1 \in 1..n |-> 0], [k1 \in 1..n |-> 255], [k1 \in 1..n |-> IF k1 = 2 THEN 255 ELSE 0] }

(***************************************************************************)
(* The handlers, as functions of the object's state                        *)
(***************************************************************************)
\* The fields of the SpectrogramVisualizer object (and of the buttons and the
\* audio context it drives) in the current state.
obj ==
    [config |-> config, analyserFftSize |-> analyserFftSize, dataArray |-> dataArray,
     melFilterBank |-> melFilterBank, isRecording |-> isRecording,
     spectrogramData |-> spectrogramData, spectrogramTexture |-> spectrogramTexture,
     startBtnDisabled |-> startBtnDisabled, stopBtnDisabled |-> stopBtnDisabled,
     audioState |-> audioState]

\* The next state's fields are those of s.
Becomes(s) ==
    /\ config' = s.config
    /\ analyserFftSize' = s.analyserFftSize
    /\ dataArray' = s.dataArray
    /\ melFilterBank' = s.melFilterBank
    /\ isRecording' = s.isRecording
    /\ spectrogramData' = s.spectrogramData
    /\ spectrogramTexture' = s.spectrogramTexture
    /\ startBtnDisabled' = s.startBtnDisabled
    /\ stopBtnDisabled' = s.stopBtnDisabled
    /\ audioState' = s.audioState


\* pushFrame without the eviction.
pushFrameNoEvict(data, melData, w) == Append(data, melData)

\* pushFrame evicting the newest frame instead of the oldest.
pushFrameDropNewest(data, melData, w) ==
    LET grown == Append(data, melData)
    IN  IF Len(grown) > w THEN SubSeq(grown, 1, w) ELSE grown
\* this.spectrogramData.push(melData); if (length > spectrogramWidth) shift().
pushFrame(data, melData, w) ==
    LET grown == Append(data, melData)
    IN  IF Len(grown) > w THEN Tail(grown) ELSE grown


\* updateSpectrogram pushing the frame and updating the image twice.
updateSpectrogramTwice(s, magnitudes) ==
    IF ~s.isRecording THEN s
    ELSE IF reduceThrows(s.melFilterBank, s.config.melBands)
    THEN [s EXCEPT !.dataArray = magnitudes]
    ELSE LET melData == applyMelFiltering(magnitudes, s.melFilterBank, s.config.melBands)
             once == pushFrame(s.spectrogramData, melData, spectrogramWidth)
             data == pushFrame(once, melData, spectrogramWidth)
             tex == updateTexture(s.spectrogramTexture, once,
                                  spectrogramWidth, s.config.melBands)
         IN  [s EXCEPT !.dataArray = magnitudes,
                       !.spectrogramData = data,
                       !.spectrogramTexture =
                           updateTexture(tex, data, spectrogramWidth, s.config.melBands)]
\* updateSpectrogram, given what getByteFrequencyData writes into dataArray.
\* When applyMelFiltering throws, the exception leaves animate after dataArray
\* was filled and before anything else changed.
updateSpectrogram(s, magnitudes) ==
    IF ~s.isRecording THEN s
    ELSE IF reduceThrows(s.melFilterBank, s.config.melBands)
    THEN [s EXCEPT !.dataArray = magnitudes]
    ELSE LET melData == applyMelFiltering(magnitudes, s.melFilterBank, s.config.melBands)
             data == pushFrame(s.spectrogramData, melData, spectrogramWidth)
         IN  [s EXCEPT !.dataArray = magnitudes,
                       !.spectrogramData = data,
                       !.spectrogramTexture =
                           updateTexture(s.spectrogramTexture, data,
                                         spectrogramWidth, s.config.melBands)]


\* startRecordingResolved without emptying the history.
startRecordingResolvedNoClear(s) ==
    [s EXCEPT !.isRecording = TRUE, !.startBtnDisabled = TRUE, !.stopBtnDisabled = FALSE]
\* startRecording after getUserMedia resolved.
startRecordingResolved(s) ==
    [s EXCEPT !.isRecording = TRUE, !.spectrogramData = <<>>,
              !.startBtnDisabled = TRUE, !.stopBtnDisabled = FALSE]


\* stopRecording flipping the flag instead of clearing it.
stopRecordingToggle(s) ==
    [s EXCEPT !.isRecording = ~s.isRecording,
              !.startBtnDisabled = FALSE, !.stopBtnDisabled = TRUE,
              !.audioState = IF s.audioState # "closed" THEN "suspended" ELSE @]

\* startRecording's catch block disabling the start button.
startRecordingRejectedDisables(s) == [s EXCEPT !.startBtnDisabled = TRUE]

\* startRecording's catch block (getUserMedia rejected, or mediaDevices is
\* missing): console.error and alert, no field is assigned.
startRecordingRejected(s) == s

\* stopRecording leaving the recording flag as it is.
stopRecordingKeepsFlag(s) ==
    [s EXCEPT !.startBtnDisabled = FALSE, !.stopBtnDisabled = TRUE,
              !.audioState = IF s.audioState # "closed" THEN "suspended" ELSE @]

\* stopRecording.  audioContext.suspend() is taken to act at once.
stopRecording(s) ==
    [s EXCEPT !.isRecording = FALSE,
              !.startBtnDisabled = FALSE, !.stopBtnDisabled = TRUE,
              !.audioState = IF s.audioState # "closed" THEN "suspended" ELSE @]

\* loadAudioFile after arrayBuffer and decodeAudioData resolved (the timer it
\* schedules is in the action LoadDecoded).
loadAudioFileDecoded(s) ==
    [s EXCEPT !.spectrogramData = <<>>, !.isRecording = TRUE,
              !.startBtnDisabled = TRUE, !.stopBtnDisabled = FALSE]


\* loadAudioFile's catch block emptying the history.
loadAudioFileFailedClears(s) == [s EXCEPT !.spectrogramData = <<>>]

\* loadAudioFile's catch and finally blocks (arrayBuffer or decodeAudioData
\* rejected): console.error, alert and the loading indicator, no field is
\* assigned and no timer is set.
loadAudioFileFailed(s) == s
\* reinitializeAudio: the analyser always exists once init() succeeded.
reinitializeAudio(s) ==
    [s EXCEPT !.analyserFftSize = s.config.fftSize,
              !.dataArray = [k1 \in 1..(s.config.fftSize \div 2) |-> 0]]


\* onFftSizeChange without the filter-bank rebuild.
onFftSizeChangeNoRebuild(s, v) == reinitializeAudio([s EXCEPT !.config.fftSize = v])
\* The analyser's fftSize setter throws IndexSizeError for a value that is not
\* one of the powers of two it accepts.
analyserRejects(v) == v \notin FftSizes

\* The 'change' listener of #fftSize.  When the setter throws, inside
\* reinitializeAudio, the listener ends there: config.fftSize is already set.
onFftSizeChange(s, v) ==
    LET s1 == [s EXCEPT !.config.fftSize = v]
        s2 == reinitializeAudio(s1)
    IN  IF analyserRejects(v) THEN s1
        ELSE [s2 EXCEPT !.melFilterBank =
                            createMelFilterBank(s2.config.fftSize, s2.config.melBands)]


\* onMelBandsChange without recreateTexture.
onMelBandsChangeNoRecreate(s, v) ==
    LET s1 == [s EXCEPT !.config.melBands = v]
    IN  [s1 EXCEPT !.melFilterBank = createMelFilterBank(s1.config.fftSize, s1.config.melBands)]

\* The melBands listener with a recreateTexture that keeps the history.
onMelBandsChangeKeepsHistory(s, v) ==
    LET s1 == [s EXCEPT !.config.melBands = v]
        s2 == [s1 EXCEPT !.melFilterBank =
                             createMelFilterBank(s1.config.fftSize, s1.config.melBands)]
    IN  [s2 EXCEPT !.spectrogramTexture =
                       recreateTexture(spectrogramWidth, s2.config.melBands)]
\* The 'input' listener of #melBands: createMelFilterBank, then recreateTexture,
\* which ends by emptying the history.
\* For a negative melBands, new Uint8Array throws RangeError in
\* recreateTexture and the listener ends there: config.melBands and the bank
\* are already set.
onMelBandsChange(s, v) ==
    LET s1 == [s EXCEPT !.config.melBands = v]
        s2 == [s1 EXCEPT !.melFilterBank =
                             createMelFilterBank(s1.config.fftSize, s1.config.melBands)]
    IN  IF spectrogramWidth * v * 4 < 0 THEN s2
        ELSE [s2 EXCEPT !.spectrogramTexture =
                            recreateTexture(spectrogramWidth, s2.config.melBands),
                        !.spectrogramData = <<>>]

(***************************************************************************)
(* Initial state: after init() has run (initThree, initAudio,              *)
(* createMelFilterBank, initControls).                                     *)
(***************************************************************************)
Init ==
    /\ config = [fftSize |-> InitFftSize, melBands |-> InitMelBands]
    /\ analyserFftSize = InitFftSize
    /\ dataArray = [k1 \in 1..(InitFftSize \div 2) |-> 0]
    /\ melFilterBank = createMelFilterBank(InitFftSize, InitMelBands)
    /\ isRecording = FALSE
    /\ spectrogramData = <<>>
    /\ spectrogramTexture = createSpectrogramPlane(spectrogramWidth, InitMelBands)
    /\ startBtnDisabled = FALSE
    \* the markup that sets the button's initial state is not in the source
    /\ stopBtnDisabled \in BOOLEAN
    \* a context created without a user gesture starts suspended or running
    /\ audioState \in {"suspended", "running"}
    /\ pendingStarts = [fresh |-> 0, stale |-> 0]
    /\ pendingLoads = [fresh |-> 0, stale |-> 0]
    /\ timers = 0
    /\ pushed = <<>>
    /\ lastOp = "init"

(***************************************************************************)
(* Actions                                                                 *)
(***************************************************************************)
\* History: the frames pushed since the buffer was last emptied, the oldest
\* dropped once there are more than spectrogramWidth + 1.
Remember(log, melData) ==
    LET grown == Append(log, melData)
    IN  IF Len(grown) > spectrogramWidth + 1 THEN Tail(grown) ELSE grown

\* Every acquisition in flight when stopRecording runs becomes stale.
Staled(p) == [fresh |-> 0, stale |-> p.fresh + p.stale]

\* One animation frame: animate -> updateSpectrogram.
Tick ==
    \E magnitudes \in Magnitudes(Len(dataArray)) :
        LET s == updateSpectrogram(obj, magnitudes)
        IN  /\ Becomes(s)
            /\ IF isRecording /\ ~reduceThrows(melFilterBank, config.melBands)
               THEN /\ pushed' = Remember(pushed, applyMelFiltering(magnitudes, melFilterBank,
                                                                    config.melBands))
                    /\ lastOp' = "tick"
               ELSE UNCHANGED <<pushed, lastOp>>
            /\ UNCHANGED <<pendingStarts, pendingLoads, timers>>

\* A click on the start button: startRecording up to its await.
StartClick ==
    /\ ~startBtnDisabled
    /\ pendingStarts.fresh + pendingStarts.stale < MaxPending
    /\ pendingStarts' = [pendingStarts EXCEPT !.fresh = @ + 1]
    /\ UNCHANGED <<config, analyserFftSize, dataArray, melFilterBank, isRecording,
                   spectrogramData, spectrogramTexture, startBtnDisabled, stopBtnDisabled,
                   audioState, pendingLoads, timers, pushed, lastOp>>

\* getUserMedia resolves: the rest of startRecording's try block.
StartResolve ==
    \E a \in {"fresh", "stale"} :
        /\ pendingStarts[a] > 0
        /\ pendingStarts' = [pendingStarts EXCEPT ![a] = @ - 1]
        /\ Becomes(startRecordingResolved(obj))
        /\ pushed' = <<>>
        /\ lastOp' = "start"
        /\ UNCHANGED <<pendingLoads, timers>>

\* getUserMedia rejects: the catch block logs and alerts.  The history
\* variable lastOp takes note of it when noted is TRUE.
StartRejected(noted) ==
    \E a \in {"fresh", "stale"} :
        /\ pendingStarts[a] > 0
        /\ pendingStarts' = [pendingStarts EXCEPT ![a] = @ - 1]
        /\ Becomes(startRecordingRejected(obj))
        /\ lastOp' = IF noted THEN "startFailed" ELSE lastOp
        /\ UNCHANGED <<pendingLoads, timers, pushed>>

StartReject == StartRejected(FALSE)

\* A file is chosen: loadAudioFile up to its awaits.  Nothing of the object
\* changes between the two awaits (file.arrayBuffer(), decodeAudioData), so
\* the call is pending from the first until the second settles.
LoadFile ==
    /\ pendingLoads.fresh + pendingLoads.stale < MaxPending
    /\ pendingLoads' = [pendingLoads EXCEPT !.fresh = @ + 1]
    /\ UNCHANGED <<config, analyserFftSize, dataArray, melFilterBank, isRecording,
                   spectrogramData, spectrogramTexture, startBtnDisabled, stopBtnDisabled,
                   audioState, pendingStarts, timers, pushed, lastOp>>

\* decodeAudioData resolves: the rest of loadAudioFile's try block, which
\* schedules the auto-stop timer.
LoadDecoded ==
    \E a \in {"fresh", "stale"} :
        /\ pendingLoads[a] > 0
        /\ timers < MaxTimers
        /\ pendingLoads' = [pendingLoads EXCEPT ![a] = @ - 1]
        /\ Becomes(loadAudioFileDecoded(obj))
        /\ timers' = timers + 1
        /\ pushed' = <<>>
        /\ lastOp' = "load"
        /\ UNCHANGED pendingStarts

\* arrayBuffer or decodeAudioData rejects: the catch block logs and alerts.
\* The history variable lastOp takes note of it when noted is TRUE.
LoadFailure(noted) ==
    \E a \in {"fresh", "stale"} :
        /\ pendingLoads[a] > 0
        /\ pendingLoads' = [pendingLoads EXCEPT ![a] = @ - 1]
        /\ Becomes(loadAudioFileFailed(obj))
        /\ lastOp' = IF noted THEN "loadFailed" ELSE lastOp
        /\ UNCHANGED <<pendingStarts, timers, pushed>>

LoadFailed == LoadFailure(FALSE)

\* A click on the stop button.
StopClick ==
    /\ ~stopBtnDisabled
    /\ Becomes(stopRecording(obj))
    /\ pendingStarts' = Staled(pendingStarts)
    /\ pendingLoads' = Staled(pendingLoads)
    /\ lastOp' = "stop"
    /\ UNCHANGED <<timers, pushed>>

\* An auto-stop timer fires: its callback calls stopRecording.
TimerFire ==
    /\ timers > 0
    /\ timers' = timers - 1
    /\ Becomes(stopRecording(obj))
    /\ pendingStarts' = Staled(pendingStarts)
    /\ pendingLoads' = Staled(pendingLoads)
    /\ lastOp' = "stop"
    /\ UNCHANGED pushed

\* The fftSize control changes to another of its values.
FftSizeChange ==
    \E v \in FftSizes \ {config.fftSize} :
        /\ Becomes(onFftSizeChange(obj, v))
        /\ lastOp' = "fft"
        /\ UNCHANGED <<pendingStarts, pendingLoads, timers, pushed>>

\* The melBands slider moves to another of its values.
MelBandsChange ==
    \E v \in MelBandChoices \ {config.melBands} :
        /\ Becomes(onMelBandsChange(obj, v))
        /\ pushed' = <<>>
        /\ lastOp' = "mel"
        /\ UNCHANGED <<pendingStarts, pendingLoads, timers>>

Next ==
    \/ Tick
    \/ StartClick
    \/ StartResolve
    \/ StartReject
    \/ LoadFile
    \/ LoadDecoded
    \/ LoadFailed
    \/ StopClick
    \/ TimerFire
    \/ FftSizeChange
    \/ MelBandsChange

Spec == Init /\ [][Next]_vars

(***************************************************************************)
(* The program with the scheduling the browser guarantees: a timer set     *)
(* with setTimeout fires in the end.  The FFT size stays as configured:     *)
(* its listener touches the analyser, the magnitude array and the filter   *)
(* bank only, never the recording flag or a timer.                         *)
(***************************************************************************)
NextLive ==
    \/ Tick
    \/ StartClick
    \/ StartResolve
    \/ StartReject
    \/ LoadFile
    \/ LoadDecoded
    \/ LoadFailed
    \/ StopClick
    \/ TimerFire
    \/ MelBandsChange

SpecLive == Init /\ [][NextLive]_vars /\ WF_vars(TimerFire)

(***************************************************************************)
(* The same program with the failure of one of the two acquisitions noted  *)
(* in lastOp, so that the state right after a failure can be told apart.   *)
(***************************************************************************)
StartRejectNoted == StartRejected(TRUE)

LoadFailedNoted == LoadFailure(TRUE)

NextStartFails ==
    \/ Tick
    \/ StartClick
    \/ StartResolve
    \/ StartRejectNoted
    \/ LoadFile
    \/ LoadDecoded
    \/ LoadFailed
    \/ StopClick
    \/ TimerFire
    \/ FftSizeChange
    \/ MelBandsChange

SpecStartFails == Init /\ [][NextStartFails]_vars

NextLoadFails ==
    \/ Tick
    \/ StartClick
    \/ StartResolve
    \/ StartReject
    \/ LoadFile
    \/ LoadDecoded
    \/ LoadFailedNoted
    \/ StopClick
    \/ TimerFire
    \/ FftSizeChange
    \/ MelBandsChange

SpecLoadFails == Init /\ [][NextLoadFails]_vars

(***************************************************************************)
(* The configuration listeners given values that are no valid              *)
(* configuration: the listeners parse whatever the control holds and       *)
(* validate nothing.                                                       *)
(***************************************************************************)
InvalidFftSizes == {0}

InvalidMelBands == {0, 0 - 1}

InvalidFftSizeChange ==
    \E v \in InvalidFftSizes :
        /\ Becomes(onFftSizeChange(obj, v))
        /\ lastOp' = "invalid"
        /\ UNCHANGED <<pendingStarts, pendingLoads, timers, pushed>>

InvalidMelBandsChange ==
    \E v \in InvalidMelBands :
        LET s == onMelBandsChange(obj, v)
        IN  /\ Becomes(s)
            /\ pushed' = IF s.spectrogramData = <<>> THEN <<>> ELSE pushed
            /\ lastOp' = "invalid"
            /\ UNCHANGED <<pendingStarts, pendingLoads, timers>>

NextInvalid ==
    \/ Next
    \/ InvalidFftSizeChange
    \/ InvalidMelBandsChange

SpecInvalid == Init /\ [][NextInvalid]_vars

(***************************************************************************)
(* The image encoder on its own: the push and updateTexture steps of       *)
(* updateSpectrogram, driven with frames that need not come from the       *)
(* reducer (values below 0 and above 1, bands missing).                    *)
(***************************************************************************)
EncodeValues == {0 - (MelUnit \div 2), 0, MelUnit \div 2, MelUnit, 2 * MelUnit}

FrameInputs(h) == UNION { [1..n -> EncodeValues] : n \in 0..h }

EncodeFrame ==
    \E f \in FrameInputs(config.melBands) :
        LET data == pushFrame(spectrogramData, f, spectrogramWidth)
        IN  /\ spectrogramData' = data
            /\ spectrogramTexture' =
                   updateTexture(spectrogramTexture, data, spectrogramWidth, config.melBands)
            /\ lastOp' = "encode"
            /\ UNCHANGED <<config, analyserFftSize, dataArray, melFilterBank, isRecording,
                           startBtnDisabled, stopBtnDisabled, audioState, pendingStarts,
                           pendingLoads, timers, pushed>>

SpecEncode == Init /\ [][EncodeFrame]_vars

(***************************************************************************)
(* createMelFilterBank on its own, for every FFT size and band count of    *)
(* the sets below.                                                         *)
(***************************************************************************)
MaxBankBands == 5

BankFftSizes == {2, 4, 8, 16, 32, 64}

BuildBank ==
    \E fftSize \in BankFftSizes, nMels \in 1..MaxBankBands :
        /\ config' = [fftSize |-> fftSize, melBands |-> nMels]
        /\ melFilterBank' = createMelFilterBank(fftSize, nMels)
        /\ lastOp' = "bank"
        /\ UNCHANGED <<analyserFftSize, dataArray, isRecording, spectrogramData,
                       spectrogramTexture, startBtnDisabled, stopBtnDisabled, audioState,
                       pendingStarts, pendingLoads, timers, pushed>>

SpecBank == Init /\ [][BuildBank]_vars

(***************************************************************************)
(* Properties                                                              *)
(***************************************************************************)
\* Cell (x, y) of the image: its four bytes R, G, B, A.
Cell(tex, x, y) ==
    LET i == (y * spectrogramWidth + x) * 4
    IN  <<tex.data[i + 1], tex.data[i + 2], tex.data[i + 3], tex.data[i + 4]>>

\* The byte that encodes the band value v >= 0: floor(min(1, v) * 255).
ByteOf(v) == (Min(v, MelUnit) * 255) \div MelUnit

\* The last n elements of a sequence.
LastN(seq, n) == SubSeq(seq, Len(seq) - n + 1, Len(seq))

\* C1: in every reachable state the history buffer holds at most
\* spectrogramWidth frames.
C1_HistoryBounded == Len(spectrogramData) <= spectrogramWidth

\* A full buffer from which a frame has been evicted.
C1_Witness == Len(spectrogramData) = spectrogramWidth /\ Len(pushed) > spectrogramWidth

\* C2: once more than spectrogramWidth frames were pushed with no clear in
\* between, the buffer holds exactly the last spectrogramWidth of them, in the
\* order they were pushed.
C2_LastWInOrder ==
    Len(pushed) > spectrogramWidth => spectrogramData = LastN(pushed, spectrogramWidth)

\* More than spectrogramWidth pushes, the evicted frame differing from every kept one.
C2_Witness ==
    /\ Len(pushed) > spectrogramWidth
    /\ \A i \in 2..Len(pushed) : pushed[i] # pushed[1]
    /\ pushed[2] # pushed[Len(pushed)]

\* C3: after spectrogramWidth shift-and-append steps with frames f_1..f_W,
\* cell (x, y) holds the byte encoding of f_{x+1}[y] in R, G and B; and each
\* step moves column x + 1 into column x, for every row.
C3_ColumnsHoldFrames ==
    Len(pushed) >= spectrogramWidth =>
        \A x \in 0..(spectrogramWidth - 1), y \in 0..(config.melBands - 1) :
            LET b == ByteOf(LastN(pushed, spectrogramWidth)[x + 1][y + 1])
            IN  Cell(spectrogramTexture, x, y) = <<b, b, b, 255>>

\* A step of a tick that pushes: the only steps that leave lastOp at "tick"
\* while recording and change nothing of what is in flight.
C3_PushingTick ==
    isRecording /\ lastOp' = "tick" /\ UNCHANGED <<pendingStarts, pendingLoads, timers>>

C3_StepShifts ==
    C3_PushingTick =>
        \A x \in 0..(spectrogramWidth - 2), y \in 0..(config.melBands - 1) :
            Cell(spectrogramTexture', x, y) = Cell(spectrogramTexture, x + 1, y)

C3_ShiftAndAppend == []C3_ColumnsHoldFrames /\ [][C3_StepShifts]_vars

\* spectrogramWidth steps done, the columns pairwise different.
C3_Witness ==
    /\ Len(pushed) >= spectrogramWidth
    /\ lastOp = "tick"
    /\ \A x \in 1..(spectrogramWidth - 1) :
           Cell(spectrogramTexture, x, 0) # Cell(spectrogramTexture, x - 1, 0)

\* C4: the image grid is spectrogramWidth x config.melBands in every reachable
\* state, and a step that changes melBands leaves the history empty and the
\* grid reallocated with the new height.
C4_GridMatchesConfig ==
    /\ spectrogramTexture.width = spectrogramWidth
    /\ spectrogramTexture.height = config.melBands
    /\ Len(spectrogramTexture.data) = spectrogramWidth * config.melBands * 4

C4_ChangeClears ==
    config'.melBands # config.melBands =>
        /\ spectrogramData' = <<>>
        /\ spectrogramTexture'.height = config'.melBands
        /\ spectrogramTexture'.width = spectrogramWidth
        /\ Len(spectrogramTexture'.data) = spectrogramWidth * config'.melBands * 4

C4_MelBandsReconfigure == []C4_GridMatchesConfig /\ [][C4_ChangeClears]_vars

\* melBands was changed while recording.
C4_Witness == lastOp = "mel" /\ isRecording /\ config.melBands # InitMelBands

\* C5: the filter bank has config.melBands filters of config.fftSize / 2
\* weights each, and the magnitude array has config.fftSize / 2 entries.
C5_BankMatchesConfig ==
    /\ Len(melFilterBank) = config.melBands
    /\ \A m \in 1..Len(melFilterBank) : Len(melFilterBank[m]) = config.fftSize \div 2
    /\ Len(dataArray) = config.fftSize \div 2
    /\ analyserFftSize = config.fftSize

\* A frame was reduced after both fftSize and melBands were changed.
C5_Witness ==
    /\ lastOp = "tick"
    /\ config.fftSize # InitFftSize
    /\ config.melBands # InitMelBands

\* C6: stopRecording is idempotent, and while recording stays off nothing but
\* a melBands change touches the history or the image (no tick pushes).
C6_StopTwiceIsStopOnce == stopRecording(stopRecording(obj)) = stopRecording(obj)

C6_NoPushWhileStopped ==
    (~isRecording /\ ~isRecording' /\ config' = config) =>
        UNCHANGED <<spectrogramData, spectrogramTexture>>

C6_StopIdempotentAndFinal == []C6_StopTwiceIsStopOnce /\ [][C6_NoPushWhileStopped]_vars

\* Recording was stopped with frames in the history.
C6_Witness == lastOp = "stop" /\ ~isRecording /\ Len(spectrogramData) > 0

\* C7: the completion of an acquisition (getUserMedia, or a file's read and
\* decode) that was pending when stopRecording ran does not turn recording
\* back on.
C7_StaleCompletes ==
    \/ pendingStarts'.stale < pendingStarts.stale
    \/ pendingLoads'.stale < pendingLoads.stale

C7_AbandonSafe == [][(C7_StaleCompletes /\ ~isRecording) => ~isRecording']_vars

\* C8 as claimed: right after a successful startRecording, a successful
\* loadAudioFile or a stopRecording, the history buffer is empty.
C8_EmptyAfterStartOrStop == lastOp \in {"start", "load", "stop"} => spectrogramData = <<>>

\* C8 as amended: right after a successful startRecording or loadAudioFile the
\* history buffer is empty; stopRecording leaves the history as it was.
C8_EmptyAfterStart == lastOp \in {"start", "load"} => spectrogramData = <<>>

C8_StopKeepsHistory == lastOp' = "stop" => spectrogramData' = spectrogramData

C8_ClearedByStartOnly == []C8_EmptyAfterStart /\ [][C8_StopKeepsHistory]_vars

\* A recording started after frames had been drawn: the history is empty, the
\* image still shows them.
C8_Witness ==
    /\ lastOp \in {"start", "load"}
    /\ spectrogramData = <<>>
    /\ \E x \in 0..(spectrogramWidth - 1) : Cell(spectrogramTexture, x, 0)[1] > 0

\* The byte of a band value clamped to [0, 1]: a missing value is 0, a value
\* below 0 is 0, a value above 1 is 1.
ClampedByte(latestData, y) ==
    IF y + 1 \notin DOMAIN latestData THEN 0
    ELSE IF latestData[y + 1] < 0 THEN 0
    ELSE ByteOf(latestData[y + 1])

RECURSIVE SumWeights(_, _)
SumWeights(filter, k1) ==
    IF k1 > Len(filter) THEN 0 ELSE filter[k1] + SumWeights(filter, k1 + 1)

\* The frames the reducer returns in this state, one for each magnitude frame.
ReducedFrames ==
    { applyMelFiltering(magnitudes, melFilterBank, config.melBands) :
          magnitudes \in Magnitudes(Len(dataArray)) }

C11_RejectedUnchanged ==
    lastOp' = "invalid" =>
        UNCHANGED <<config, melFilterBank, spectrogramTexture, spectrogramData>>

C11_InvalidConfigNoMutation == [][C11_RejectedUnchanged]_vars

\* C12: when getUserMedia rejects, startRecording changes nothing: the
\* recording flag, the history, the image and every other field of the object
\* are as before, so no later tick pushes because of it.
C12_RejectChangesNothing ==
    (lastOp' = "startFailed" /\ pendingStarts' # pendingStarts) =>
        UNCHANGED <<config, analyserFftSize, dataArray, melFilterBank, isRecording,
                    spectrogramData, spectrogramTexture, startBtnDisabled, stopBtnDisabled,
                    audioState, pendingLoads, timers>>

C12_IdleAfterReject == lastOp = "startFailed" /\ ~isRecording => lastOp' # "tick"

C12_DeviceUnavailable == [][C12_RejectChangesNothing /\ C12_IdleAfterReject]_vars

\* getUserMedia was rejected while the pipeline was idle with an image drawn.
C12_Witness ==
    /\ lastOp = "startFailed"
    /\ ~isRecording
    /\ \E x \in 0..(spectrogramWidth - 1) : Cell(spectrogramTexture, x, 0)[1] > 0

\* C13: when reading or decoding the file fails, loadAudioFile changes
\* nothing: the recording flag, the history and the image are as before and
\* no auto-stop timer is scheduled.
C13_FailureChangesNothing ==
    (lastOp' = "loadFailed" /\ pendingLoads' # pendingLoads) =>
        UNCHANGED <<config, analyserFftSize, dataArray, melFilterBank, isRecording,
                    spectrogramData, spectrogramTexture, startBtnDisabled, stopBtnDisabled,
                    audioState, pendingStarts, timers>>

C13_DecodeFailure == [][C13_FailureChangesNothing]_vars

\* A load failed while a recording with frames in the history was running.
C13_Witness ==
    /\ lastOp = "loadFailed"
    /\ isRecording
    /\ Len(spectrogramData) > 0

\* C14: in every reachable state every cell of the image has R = G = B and
\* alpha 255.
C14_GreyOpaqueCells ==
    \A x \in 0..(spectrogramTexture.width - 1), y \in 0..(spectrogramTexture.height - 1) :
        LET c == Cell(spectrogramTexture, x, y)
        IN  c[1] = c[2] /\ c[2] = c[3] /\ c[4] = 255

\* C15: in every reachable state every frame of the history buffer has
\* exactly config.melBands entries.
C15_FramesMatchBandCount ==
    \A i \in 1..Len(spectrogramData) : Len(spectrogramData[i]) = config.melBands

\* The history is full of frames pushed after the band count was changed.
C15_Witness ==
    /\ config.melBands # InitMelBands
    /\ Len(spectrogramData) = spectrogramWidth

\* The frequency of bin k of nfft bins, and a breakpoint hz, on the common
\* scale of Hz * 2 * nfft.
BinFreq(k) == k * sampleRate

Scaled(hz, nfft) == hz * 2 * nfft

\* Breakpoints that bins can and cannot fall on.
TrianglePoints == {0, 500, 5000, 11025, 16000, 22050}

\* C16, the bank: it has config.melBands filters whose breakpoints strictly
\* increase; every weight is in [0, 1] and is 0 outside [left, right]; the
\* weights rise over the bins from left to center and fall over the bins from
\* center to right; two filters that are not neighbours have no bin in common.
C16_BankShape ==
    LET nfft == config.fftSize \div 2
        nMels == config.melBands
        hz == hzPoints(nMels)
        bins == 0..(nfft - 1)
        w(m, k) == melFilterBank[m][k + 1]
    IN  lastOp = "bank" =>
            /\ Len(melFilterBank) = nMels
            /\ \A m \in 1..(nMels + 1) : hz[m] < hz[m + 1]
            /\ \A m \in 1..nMels, k \in bins :
                   /\ w(m, k) \in 0..WeightScale
                   /\ (BinFreq(k) < Scaled(hz[m], nfft) \/ BinFreq(k) > Scaled(hz[m + 2], nfft))
                          => w(m, k) = 0
            /\ \A m \in 1..nMels, k \in bins, j \in bins :
                   k < j =>
                       /\ (BinFreq(k) >= Scaled(hz[m], nfft) /\ BinFreq(j) <= Scaled(hz[m + 1], nfft))
                              => w(m, k) < w(m, j)
                       /\ (BinFreq(k) >= Scaled(hz[m + 1], nfft) /\ BinFreq(j) <= Scaled(hz[m + 2], nfft))
                              => w(m, k) > w(m, j)
            /\ \A m \in 1..nMels, n \in 1..nMels, k \in bins :
                   n >= m + 2 => ~(w(m, k) > 0 /\ w(n, k) > 0)

\* C16, the breakpoints: for every triangle over TrianglePoints, a bin exactly
\* at left or at right gets 0, a bin exactly at center gets 1, and every bin
\* gets a weight in [0, 1].
C16_Breakpoints ==
    LET nfft == config.fftSize \div 2
    IN  lastOp = "bank" =>
            \A left \in TrianglePoints, center \in TrianglePoints, right \in TrianglePoints :
                (left < center /\ center < right) =>
                    \A k \in 0..(nfft - 1) :
                        LET weight == filterWeight(k, nfft, left, center, right)
                        IN  /\ weight \in 0..WeightScale
                            /\ BinFreq(k) = Scaled(left, nfft) => weight = 0
                            /\ BinFreq(k) = Scaled(right, nfft) => weight = 0
                            /\ BinFreq(k) = Scaled(center, nfft) => weight = WeightScale

C16_FilterBank == C16_BankShape /\ C16_Breakpoints

\* A bank of the most bands over the most bins: some filter has two bins on
\* its rising side and two on its falling side, and a bin lies exactly on
\* the middle of the spectrum, a breakpoint of TrianglePoints.
C16_Witness ==
    /\ lastOp = "bank"
    /\ config.melBands = MaxBankBands
    /\ \E m \in 1..Len(melFilterBank) :
           \E k \in 1..(Len(melFilterBank[m]) - 3) :
               /\ 0 < melFilterBank[m][k]
               /\ melFilterBank[m][k] < melFilterBank[m][k + 1]
               /\ melFilterBank[m][k + 2] > melFilterBank[m][k + 3]
               /\ melFilterBank[m][k + 3] > 0
    /\ \E k \in 0..(config.fftSize \div 2 - 1) :
           BinFreq(k) = Scaled(11025, config.fftSize \div 2)

\* C17: with k frames in the history buffer, the rightmost k columns of the
\* image, left to right, hold the byte encodings of the history frames, oldest
\* to newest: column spectrogramWidth - k + i - 1 (from 0) encodes frame i.
C17_ColumnsAreHistory ==
    LET k == Len(spectrogramData)
    IN  \A i \in 1..k, y \in 0..(config.melBands - 1) :
            LET b == ByteOf(spectrogramData[i][y + 1])
                c == Cell(spectrogramTexture, spectrogramWidth - k + i - 1, y)
            IN  c[1] = b /\ c[2] = b /\ c[3] = b

\* A full history after an eviction and a band-count change, the oldest and
\* the newest column different.
C17_Witness ==
    /\ Len(spectrogramData) = spectrogramWidth
    /\ Len(pushed) > spectrogramWidth
    /\ config.melBands # InitMelBands
    /\ Cell(spectrogramTexture, 0, 0) # Cell(spectrogramTexture, spectrogramWidth - 1, 0)

\* C18: a tick while recording reads the analyser once, appends exactly one
\* frame, the reduction of what was read, to the history (evicting the oldest
\* frame of a full history) and shifts the image by one column, writing the
\* frame into the last one; a tick while not recording leaves the history and
\* the image unchanged.
C18_RecordingTick ==
    C3_PushingTick =>
        LET frame == applyMelFiltering(dataArray', melFilterBank, config.melBands)
        IN  /\ dataArray' \in Magnitudes(Len(dataArray))
            /\ spectrogramData' =
                   IF Len(spectrogramData) < spectrogramWidth
                   THEN Append(spectrogramData, frame)
                   ELSE Append(Tail(spectrogramData), frame)
            /\ \A y \in 0..(config.melBands - 1) :
                   /\ \A x \in 0..(spectrogramWidth - 2) :
                          Cell(spectrogramTexture', x, y) = Cell(spectrogramTexture, x + 1, y)
                   /\ Cell(spectrogramTexture', spectrogramWidth - 1, y) =
                          <<ByteOf(frame[y + 1]), ByteOf(frame[y + 1]), ByteOf(frame[y + 1]), 255>>
            /\ UNCHANGED <<config, melFilterBank, isRecording>>

\* While not recording, a step that is no handler's (nothing noted in lastOp,
\* nothing in flight or in the configuration changed) changes nothing drawn.
C18_IdleTick ==
    (~isRecording /\ UNCHANGED <<config, lastOp, pendingStarts, pendingLoads, timers>>) =>
        UNCHANGED <<spectrogramData, spectrogramTexture, dataArray>>

C18_TickEffect == [][C18_RecordingTick /\ C18_IdleTick]_vars

\* A tick has just read a non-silent spectrum and pushed its frame.
C18_Witness ==
    /\ lastOp = "tick"
    /\ isRecording
    /\ Len(spectrogramData) >= 1
    /\ \E k \in DOMAIN dataArray : dataArray[k] = 255
    /\ \E y \in 0..(config.melBands - 1) :
           Cell(spectrogramTexture, spectrogramWidth - 1, y)[1] > 0

\* C19: after loadAudioFile has started playback, a state with the recording
\* flag false is reached in the end, whatever the user does; and while the
\* flag is false no step pushes a frame.
C19_StoppedInTheEnd == (lastOp = "load" /\ isRecording) ~> ~isRecording

C19_NoPushWhileOff ==
    ~isRecording =>
        /\ spectrogramData' \in {spectrogramData, <<>>}
        /\ spectrogramTexture' = spectrogramTexture
               \/ spectrogramTexture' = recreateTexture(spectrogramWidth, config'.melBands)
        /\ lastOp' = "tick" => lastOp = "tick"

C19_AutoStop == C19_StoppedInTheEnd /\ [][C19_NoPushWhileOff]_vars

\* Playback has just started: recording is on and the auto-stop timer is set.
C19_Witness == lastOp = "load" /\ isRecording /\ timers > 0 /\ ~stopBtnDisabled

\* C20: the auto-stop timer ends only the playback session that scheduled
\* it: when the session in progress is a microphone recording, begun by
\* startRecording after that playback, a timer that fires leaves it recording.
C20_TimerStopsNewerSession ==
    (lastOp = "start" /\ isRecording /\ timers' < timers) => isRecording'

C20_TimerSparesNewerSession == [][C20_TimerStopsNewerSession]_vars

\* C21: whenever the recording flag is true the audio context is running,
\* not suspended.
C21_RecordingMeansRunning == isRecording => audioState = "running"

====
